---- MODULE Spec2Model ----
(***************************************************************************)
(* Model of the ozy CLI: the `git setup` and `git hosts` commands, the     *)
(* SSH client configuration reader getSSHConfig and the remote probe       *)
(* getUsername.                                                            *)
(*                                                                         *)
(* JavaScript strings are sequences of one-character strings, so that      *)
(* startsWith, substring, split, trim and replaceAll are computed.         *)
(* A plain JavaScript object ({}) is a sequence of own properties in       *)
(* insertion order; the `in` operator and property reads also see the      *)
(* properties inherited from Object.prototype, and for-in enumerates       *)
(* array-index keys first, in ascending numeric order.                     *)
(***************************************************************************)
EXTENDS Integers, Sequences, FiniteSets, TLC

VARIABLES
  cmd,        \* which entry point runs: "setup", "hosts" or "probe"
  pc,         \* position of the running async function
  fsys,       \* the files the run has looked at (what the collaborators answered)
  loc,        \* local variables of gitSetup / listHosts / getUsername
  result,     \* the Result returned to makeCommand (Pending until then)
  calls,      \* collaborator calls made so far, in order
  writes,     \* git-config writes attempted so far, in order
  logged,     \* what was handed to log(), in order
  exited      \* "running", "exit" (process.exit reached) or "unhandled"

vars == <<cmd, pc, fsys, loc, result, calls, writes, logged, exited>>

----------------------------------------------------------------------------
(* Bounds of the model *)

MaxLines == 3        \* top-level lines of a configuration document (hosts command)
MaxSetupLines == 1   \* top-level lines of a configuration document (setup command)
MaxTextLen == 4      \* length of the free probe texts beside the fixed samples

----------------------------------------------------------------------------
(* Strings *)

Undefined == <<"<undefined>">>

WhiteSpace == {" ", "\n", "\t"}

S_gitAt == <<"g","i","t","@">>
S_Hi == <<"H","i"," ">>
S_CouldNotResolve ==
  <<"s","s","h",":"," ","C","o","u","l","d"," ","n","o","t"," ","r","e","s","o","l","v","e">>
S_dotPub == <<".","p","u","b">>
S_github == <<"g","i","t","h","u","b",".","c","o","m">>
S_example == <<"e","x",".","c","o","m">>
S_git == <<"g","i","t">>
S_true == <<"t","r","u","e">>
S_ssh == <<"s","s","h">>
S_Home == <<"/","h">>
S_valueOf == <<"v","a","l","u","e","O","f">>

startsWith(s, p) == Len(s) >= Len(p) /\ SubSeq(s, 1, Len(p)) = p

substring(s, n) == SubSeq(s, n + 1, Len(s))

RECURSIVE trimStart(_)
trimStart(s) ==
  IF s # <<>> /\ Head(s) \in WhiteSpace THEN trimStart(Tail(s)) ELSE s

RECURSIVE trimEnd(_)
trimEnd(s) ==
  IF s # <<>> /\ s[Len(s)] \in WhiteSpace THEN trimEnd(SubSeq(s, 1, Len(s) - 1)) ELSE s

trim(s) == trimEnd(trimStart(s))

\* s.split(c)[0]: the part of s before the first c, all of s when there is none
RECURSIVE splitFirst(_, _)
splitFirst(s, c) ==
  IF s = <<>> \/ Head(s) = c THEN <<>> ELSE <<Head(s)>> \o splitFirst(Tail(s), c)

\* s.split(c).pop(): the part of s after the last c, all of s when there is none
RECURSIVE splitLast(_, _)
splitLast(s, c) ==
  IF s = <<>> \/ s[Len(s)] = c THEN <<>>
  ELSE splitLast(SubSeq(s, 1, Len(s) - 1), c) \o <<s[Len(s)]>>

replaceAll(s, a, b) == [i \in 1..Len(s) |-> IF s[i] = a THEN b ELSE s[i]]

\* expand-tilde: a leading ~ becomes the home directory
expandTilde(p) ==
  IF p # <<>> /\ Head(p) = "~" THEN S_Home \o Tail(p) ELSE p

----------------------------------------------------------------------------
(* Plain JavaScript objects *)

\* the names every plain object inherits (constructor, toString, valueOf,
\* hasOwnProperty, __proto__, ...), of which one stands for all
ObjectPrototypeKeys == {S_valueOf}

EmptyObject == <<>>

OwnKeys(obj) == [i \in 1..Len(obj) |-> obj[i].key]

HasOwn(obj, k) == \E i \in 1..Len(obj) : obj[i].key = k

\* k in obj
HasProperty(obj, k) == HasOwn(obj, k) \/ k \in ObjectPrototypeKeys

OwnValue(obj, k) == obj[CHOOSE i \in 1..Len(obj) : obj[i].key = k].val

\* obj[k] = v
SetProperty(obj, k, v) ==
  IF HasOwn(obj, k)
  THEN [i \in 1..Len(obj) |-> IF obj[i].key = k THEN [key |-> k, val |-> v] ELSE obj[i]]
  ELSE Append(obj, [key |-> k, val |-> v])

Digits == {"0","1","2","3","4","5","6","7","8","9"}

DigitValue(c) ==
  CASE c = "0" -> 0 [] c = "1" -> 1 [] c = "2" -> 2 [] c = "3" -> 3 [] c = "4" -> 4
    [] c = "5" -> 5 [] c = "6" -> 6 [] c = "7" -> 7 [] c = "8" -> 8 [] c = "9" -> 9

RECURSIVE NumericValue(_)
NumericValue(s) ==
  IF s = <<>> THEN 0
  ELSE 10 * NumericValue(SubSeq(s, 1, Len(s) - 1)) + DigitValue(s[Len(s)])

\* a canonical array index: "0", or digits without a leading zero (short enough
\* here to stay below 2^32 - 1)
IsArrayIndex(k) ==
  /\ Len(k) \in 1..9
  /\ \A i \in 1..Len(k) : k[i] \in Digits
  /\ (Len(k) > 1 => k[1] # "0")

RECURSIVE SortByNumber(_)
SortByNumber(S) ==
  IF S = {} THEN <<>>
  ELSE LET m == CHOOSE x \in S : \A y \in S : NumericValue(x) <= NumericValue(y)
       IN <<m>> \o SortByNumber(S \ {m})

\* for (const k in obj): array-index keys ascending, then the others as inserted
ForInKeys(obj) ==
  LET ks == OwnKeys(obj)
      idx == {ks[i] : i \in {j \in 1..Len(ks) : IsArrayIndex(ks[j])}}
  IN SortByNumber(idx) \o SelectSeq(ks, LAMBDA k : ~IsArrayIndex(k))

----------------------------------------------------------------------------
(* Result *)

Ok(v) == [success |-> TRUE, value |-> v, error |-> "", reason |-> <<>>]

Err(e, r) == [success |-> FALSE, value |-> <<>>, error |-> e, reason |-> r]

Pending == [success |-> FALSE, value |-> <<>>, error |-> "<pending>", reason |-> <<>>]

----------------------------------------------------------------------------
(* The parsed configuration document (what SSHConfig.parse hands back) *)

Str(s) == [isString |-> TRUE, s |-> s]

\* a value that is not a string (ssh-config's token array of `Host a b`)
NonString == [isString |-> FALSE, s |-> <<"[","]">>]

CommentLine ==
  [type |-> "comment", param |-> "", value |-> NonString, hasConfig |-> FALSE, config |-> <<>>]

Directive(p, v) ==
  [type |-> "directive", param |-> p, value |-> v, hasConfig |-> FALSE, config |-> <<>>]

Section(p, v, c) ==
  [type |-> "directive", param |-> p, value |-> v, hasConfig |-> TRUE, config |-> c]

S_key1 == <<"~","/","k">>
S_key2 == <<"c","\\","k">>
S_22 == <<"2","2">>

ConfigFull == <<Directive("HostName", Str(S_github)), Directive("User", Str(S_git)),
                Directive("IdentityFile", Str(S_key1))>>
ConfigWin == <<Directive("IdentityFile", Str(S_key2)), Directive("User", Str(S_git)),
               Directive("HostName", Str(S_github)), Directive("Port", Str(S_22))>>
ConfigOther == <<Directive("HostName", Str(S_example)), Directive("User", Str(S_git))>>
ConfigNoUser == <<Directive("HostName", Str(S_github))>>
ConfigNonString == <<Directive("HostName", Str(S_github)), Directive("User", NonString)>>
ConfigRepeat == <<CommentLine, Directive("HostName", Str(S_example)),
                  Directive("HostName", Str(S_github)), Directive("User", Str(S_git))>>

Aliases == {<<"w">>, <<"2">>, <<"1","0">>, S_valueOf}

\* the top-level lines a document is made of
Lines ==
  {Section("Host", Str(a), c) : a \in Aliases, c \in {ConfigFull, ConfigOther}}
  \cup {Section("Host", Str(<<"w">>), ConfigNoUser),
        Section("Host", Str(<<"w">>), ConfigNonString),
        Section("Host", Str(<<"2">>), ConfigRepeat),
        Section("Host", Str(<<"1","0">>), ConfigWin),
        CommentLine,
        Directive("Include", Str(<<"x">>)),
        Section("Host", NonString, ConfigFull),
        Directive("Host", Str(<<"w">>))}

Docs(n) == UNION {[1..k -> Lines] : k \in 0..n}

----------------------------------------------------------------------------
(* src/common/ssh.ts: getSSHConfig *)

\* lines 74-85: the key/value pairs of one Host block, or the first non-string value
RECURSIVE CollectKeyValues(_, _)
CollectKeyValues(config, keyValues) ==
  IF config = <<>> THEN [ok |-> TRUE, keyValues |-> keyValues]
  ELSE LET innerLine == Head(config) IN
    IF innerLine.type = "comment" THEN CollectKeyValues(Tail(config), keyValues)
    ELSE IF ~innerLine.value.isString THEN [ok |-> FALSE, keyValues |-> keyValues]
    ELSE CollectKeyValues(Tail(config),
                          SetProperty(keyValues, innerLine.param, innerLine.value.s))

OptionalProp(obj, k) == IF HasOwn(obj, k) THEN OwnValue(obj, k) ELSE Undefined

\* lines 9-15: HostName and User are required, three keys are optional, any other
\* key is stripped
SSHConfigSectionSchema(keyValues) ==
  IF HasOwn(keyValues, "HostName") /\ HasOwn(keyValues, "User")
  THEN [success |-> TRUE,
        data |-> [HostName |-> OwnValue(keyValues, "HostName"),
                  User |-> OwnValue(keyValues, "User"),
                  IdentityFile |-> OptionalProp(keyValues, "IdentityFile"),
                  AddKeysToAgent |-> OptionalProp(keyValues, "AddKeysToAgent"),
                  IdentitiesOnly |-> OptionalProp(keyValues, "IdentitiesOnly")]]
  ELSE [success |-> FALSE, data |-> <<>>]

\* a reader that never finds an alias declared already
HostAlreadyDeclared_never(hosts, host) == FALSE

\* line 68: host in hosts
HostAlreadyDeclared(hosts, host) == HasProperty(hosts, host)

\* lines 46-95: the loop over the top-level lines
RECURSIVE ParseLines(_, _)
ParseLines(doc, hosts) ==
  IF doc = <<>> THEN Ok(hosts)
  ELSE LET line == Head(doc) IN
    IF line.type = "comment" THEN ParseLines(Tail(doc), hosts)
    ELSE IF line.param # "Host" THEN
      Err("EntryNotAHostKeyValuePairError", <<"Unexpected top-level entry", line.param, line.value.s>>)
    ELSE IF ~line.value.isString THEN
      Err("EntryNotAHostKeyValuePairError", <<"non string", line.param, line.value.s>>)
    ELSE IF ~line.hasConfig THEN
      Err("EntryNotAHostKeyValuePairError", <<"non-section", line.param, line.value.s>>)
    ELSE LET host == line.value.s IN
      IF HostAlreadyDeclared(hosts, host) THEN
        Err("DupublicatHostError", <<"duplicate Hosts named", host>>)
      ELSE LET kv == CollectKeyValues(line.config, EmptyObject) IN
        IF ~kv.ok THEN Err("MalformedError", <<"non string value", host>>)
        ELSE LET parsed == SSHConfigSectionSchema(kv.keyValues) IN
          IF ~parsed.success THEN Err("MalformedError", <<"malformed section", host>>)
          ELSE ParseLines(Tail(doc), SetProperty(hosts, host, parsed.data))

\* file: [exists, readable, doc]; an unreadable file is one whose read or parse throws
getSSHConfig(file) ==
  IF ~file.exists THEN Err("SSHConfigFileMissingError", <<"No file found">>)
  ELSE IF ~file.readable THEN Err("ParseError", <<"unable to parse ssh file">>)
  ELSE ParseLines(file.doc, EmptyObject)

NoFile == [exists |-> FALSE, readable |-> FALSE, doc |-> <<>>]
UnreadableFile == [exists |-> TRUE, readable |-> FALSE, doc |-> <<>>]
FileOf(doc) == [exists |-> TRUE, readable |-> TRUE, doc |-> doc]

Files(n) == {NoFile, UnreadableFile} \cup {FileOf(d) : d \in Docs(n)}

----------------------------------------------------------------------------
(* hosts command: listHosts under makeCommand *)

\* a listing that leaves the HostName filter out
GitHosts_unfiltered(hosts) == ForInKeys(hosts)

\* lines 194-200: the aliases whose HostName is github.com, in for-in order
GitHosts(hosts) ==
  SelectSeq(ForInKeys(hosts), LAMBDA host : OwnValue(hosts, host).HostName = S_github)

Unasked == <<"<unasked>">>
Throws == <<"<throws>">>

NoLocals ==
  [sshConfigFileResult |-> Pending, remoteOrigin |-> Undefined, sshHost |-> Undefined,
   identityFilePath |-> Undefined, email |-> Undefined, username |-> Undefined]

\* nothing has been asked of the environment yet
Untouched ==
  [isRepo |-> "unasked", origin |-> Unasked, sshConfig |-> NoFile, sshAsked |-> FALSE,
   pubExists |-> "unasked", pubContent |-> Unasked, probe |-> Unasked]

InitHosts ==
  /\ cmd = "hosts"
  /\ pc = "start"
  /\ fsys \in {[Untouched EXCEPT !.sshConfig = f, !.sshAsked = TRUE] : f \in Files(MaxLines)}
  /\ loc = NoLocals
  /\ result = Pending
  /\ calls = <<>>
  /\ writes = <<>>
  /\ logged = <<>>
  /\ exited = "running"

listHosts ==
  /\ cmd = "hosts" /\ pc = "start"
  /\ LET sshConfig == getSSHConfig(fsys.sshConfig) IN
       /\ loc' = [loc EXCEPT !.sshConfigFileResult = sshConfig]
       /\ calls' = Append(calls, "getSSHConfig")
       /\ IF ~sshConfig.success
          THEN /\ result' = Err("MalformedSSHConfigFile", <<sshConfig.error, sshConfig.reason>>)
               /\ logged' = logged
          ELSE /\ result' = Ok(TRUE)
               /\ logged' = logged \o <<[text |-> "Available hosts:", arg |-> <<>>]>>
                              \o [i \in 1..Len(GitHosts(sshConfig.value)) |->
                                    [text |-> " - ", arg |-> GitHosts(sshConfig.value)[i]]]
  /\ pc' = "returned"
  /\ UNCHANGED <<cmd, fsys, writes, exited>>

\* src/common/command.ts lines 9-15
makeCommandExit ==
  /\ pc = "returned" /\ exited = "running"
  /\ logged' = IF result.success THEN logged
               ELSE Append(logged, [text |-> "error", arg |-> <<result.error, result.reason>>])
  /\ exited' = "exit"
  /\ pc' = "exited"
  /\ UNCHANGED <<cmd, fsys, loc, result, calls, writes>>

NextHosts == listHosts \/ makeCommandExit

SpecHosts == InitHosts /\ [][NextHosts]_vars

----------------------------------------------------------------------------
(* src/common/ssh.ts: getUsername *)

\* a reading of the captured text as it came, untrimmed
ParseGreeting_untrimmed(stdout) ==
  IF startsWith(stdout, S_CouldNotResolve) THEN Undefined
  ELSE IF startsWith(stdout, S_Hi) THEN splitFirst(substring(stdout, Len(S_Hi)), "!")
  ELSE Undefined

\* lines 109-120: what the captured text is read as
ParseGreeting(stdout) ==
  LET output == trim(stdout) IN
    IF startsWith(output, S_CouldNotResolve) THEN Undefined
    ELSE IF startsWith(output, S_Hi) THEN splitFirst(substring(output, Len(S_Hi)), "!")
    ELSE Undefined

\* lines 106-127: probe is the captured text, or Throws when the ssh call itself throws
getUsername(probe) ==
  IF probe = Throws THEN Undefined ELSE ParseGreeting(probe)

\* what getUsername logs
getUsernameLog(probe) ==
  IF probe = Throws THEN <<[text |-> "unable to get username due to", arg |-> <<>>]>>
  ELSE IF startsWith(trim(probe), S_CouldNotResolve) THEN <<[text |-> "output", arg |-> trim(probe)]>>
  ELSE IF startsWith(trim(probe), S_Hi) THEN <<>>
  ELSE <<[text |-> "Unable to discern output ssh -T output format", arg |-> trim(probe)]>>

ProbeAlphabet == {"H", "i", " ", "!", "b"}

S_greeting == <<"H","i"," ","b","o","b","!"," ","Y","o","u","'","v","e","!","\n">>
S_noBang == <<" ","H","i"," ","b","o","b","\n">>
S_unresolved == S_CouldNotResolve \o <<" ","h","o","s","t","n","a","m","e"," ","w","\n">>
S_denied == <<"d","e","n","i","e","d">>
S_hiUnresolved == <<"\n">> \o S_Hi \o S_CouldNotResolve \o <<"!">>

SampleTexts == {S_greeting, S_noBang, S_unresolved, S_CouldNotResolve, S_denied, S_hiUnresolved}

ProbeTexts == SampleTexts \cup UNION {[1..n -> ProbeAlphabet] : n \in 0..MaxTextLen}

InitProbe ==
  /\ cmd = "probe"
  /\ pc = "probeStart"
  /\ fsys \in {[Untouched EXCEPT !.probe = t] : t \in ProbeTexts \cup {Throws}}
  /\ loc = NoLocals
  /\ result = Pending
  /\ calls = <<>>
  /\ writes = <<>>
  /\ logged = <<>>
  /\ exited = "running"

getUsernameCall ==
  /\ cmd = "probe" /\ pc = "probeStart"
  /\ loc' = [loc EXCEPT !.username = getUsername(fsys.probe)]
  /\ logged' = logged \o getUsernameLog(fsys.probe)
  /\ calls' = Append(calls, "ssh -T")
  /\ pc' = "probeDone"
  /\ UNCHANGED <<cmd, fsys, result, writes, exited>>

NextProbe == getUsernameCall

SpecProbe == InitProbe /\ [][NextProbe]_vars

----------------------------------------------------------------------------
(* setup command: gitSetup under makeCommand *)

\* !x for a string or undefined
Falsy(x) == x = Undefined \/ x = <<>>

\* lines 62-71: the trimmed output, undefined when the git call throws
getGitRemoteOrigin(answer) == IF answer = Throws THEN Undefined ELSE trim(answer)

\* line 108
SshHostOf(remoteOrigin) == splitFirst(substring(remoteOrigin, Len(S_gitAt)), ":")

\* what Object.prototype[k] reads as: a function or accessor without the section's fields
InheritedValue ==
  [HostName |-> Undefined, User |-> Undefined, IdentityFile |-> Undefined,
   AddKeysToAgent |-> Undefined, IdentitiesOnly |-> Undefined]

\* obj[k]
GetProperty(obj, k) == IF HasOwn(obj, k) THEN OwnValue(obj, k) ELSE InheritedValue

\* line 120: sshHost in sshConfigFile
HostEntryFound(sshConfigFile, sshHost) == HasProperty(sshConfigFile, sshHost)

\* lines 139-141
IdentityFilePathOf(hostConfig) == expandTilde(hostConfig.IdentityFile) \o S_dotPub

\* line 149
EmailOf(content) == splitLast(trim(content), " ")

\* a check that tests for undefined only, and so lets the empty name through
UsernameMissing_undefinedOnly(username) == username = Undefined

\* line 158: !username
UsernameMissing(username) == Falsy(username)

\* the six writes with the key path written as it is, backslashes kept
GitConfigWrites_rawPath(identityFilePath, username, email) ==
  << [k |-> "commit.gpgsign", v |-> S_true, location |-> "global"],
     [k |-> "tag.gpgsign", v |-> S_true, location |-> "global"],
     [k |-> "gpg.format", v |-> S_ssh, location |-> "global"],
     [k |-> "user.signingkey", v |-> identityFilePath, location |-> "local"],
     [k |-> "user.name", v |-> username, location |-> "local"],
     [k |-> "user.email", v |-> email, location |-> "local"] >>

\* lines 165-170
GitConfigWrites(identityFilePath, username, email) ==
  << [k |-> "commit.gpgsign", v |-> S_true, location |-> "global"],
     [k |-> "tag.gpgsign", v |-> S_true, location |-> "global"],
     [k |-> "gpg.format", v |-> S_ssh, location |-> "global"],
     [k |-> "user.signingkey", v |-> replaceAll(identityFilePath, "\\", "/"), location |-> "local"],
     [k |-> "user.name", v |-> username, location |-> "local"],
     [k |-> "user.email", v |-> email, location |-> "local"] >>

\* a return that reports a failed write as a failure of the run
WriteStageResult_strict(ws) ==
  IF \A i \in 1..Len(ws) : ws[i].ok THEN Ok(TRUE)
  ELSE Err("GitConfigWriteError", <<"unable to set git config key">>)

\* line 172: the value returned once the writes were attempted (ws: the attempts)
WriteStageResult(ws) == Ok(TRUE)

S_originW == S_gitAt \o <<"w",":","o","/","r","\n">>
S_originNoColon == S_gitAt \o <<"2">>
S_originTen == S_gitAt \o <<"1","0",":","r">>
S_originInherited == S_gitAt \o S_valueOf \o <<":","r">>
S_originUnknown == S_gitAt \o <<"x",":","r">>
S_originHttps == <<"h","t","t","p","s",":","/","/","w","/","r">>
S_originBlank == <<"\n">>

OriginAnswers ==
  {S_originW, S_originNoColon, S_originTen, S_originInherited, S_originUnknown,
   S_originHttps, S_originBlank, Throws}

S_pubkey == <<"k"," ","A","A"," "," ","a","@","b","\n">>
S_pubkeyOneToken == <<"A","A">>
S_pubkeyBlank == <<" ","\n">>

PubContents == {S_pubkey, S_pubkeyOneToken, S_pubkeyBlank, <<>>, Throws}

SetupProbes == {S_greeting, S_noBang, S_unresolved, S_denied, <<"H","i"," ","!">>, Throws}

InitSetup ==
  /\ cmd = "setup"
  /\ pc = "start"
  /\ fsys = Untouched
  /\ loc = NoLocals
  /\ result = Pending
  /\ calls = <<>>
  /\ writes = <<>>
  /\ logged = <<>>
  /\ exited = "running"

Return(r) == result' = r /\ pc' = "returned"

\* lines 86-92
checkIsRepo ==
  /\ cmd = "setup" /\ pc = "start"
  /\ \E isRepo \in BOOLEAN :
       /\ fsys' = [fsys EXCEPT !.isRepo = IF isRepo THEN "yes" ELSE "no"]
       /\ calls' = Append(calls, "git rev-parse")
       /\ IF ~isRepo
          THEN /\ logged' = Append(logged, [text |-> "error", arg |-> <<>>])
               /\ Return(Err("NotInGitDirectoryError", <<"not a Git repository">>))
          ELSE /\ logged' = logged
               /\ pc' = "origin" /\ result' = result
  /\ UNCHANGED <<cmd, loc, writes, exited>>

\* lines 94-108
checkRemoteOrigin ==
  /\ cmd = "setup" /\ pc = "origin"
  /\ \E answer \in OriginAnswers :
       LET remoteOrigin == getGitRemoteOrigin(answer) IN
       /\ fsys' = [fsys EXCEPT !.origin = answer]
       /\ calls' = Append(calls, "git config --get remote.origin.url")
       /\ IF Falsy(remoteOrigin)
          THEN /\ Return(Err("NoRemoteOriginError", <<"No remote origin configured.">>))
               /\ loc' = loc
          ELSE IF ~startsWith(remoteOrigin, S_gitAt)
          THEN /\ Return(Err("RemoteOriginIsNotSSHError", <<"not ssh-based", remoteOrigin>>))
               /\ loc' = [loc EXCEPT !.remoteOrigin = remoteOrigin]
          ELSE /\ pc' = "sshConfig" /\ result' = result
               /\ loc' = [loc EXCEPT !.remoteOrigin = remoteOrigin,
                                     !.sshHost = SshHostOf(remoteOrigin)]
  /\ UNCHANGED <<cmd, writes, logged, exited>>

\* lines 110-141
loadSSHConfig ==
  /\ cmd = "setup" /\ pc = "sshConfig"
  /\ \E file \in Files(MaxSetupLines) :
       LET sshConfigFileResult == getSSHConfig(file)
           sshConfigFile == sshConfigFileResult.value
           hostConfig == GetProperty(sshConfigFile, loc.sshHost)
       IN
       /\ fsys' = [fsys EXCEPT !.sshConfig = file, !.sshAsked = TRUE]
       /\ calls' = calls \o <<"fs.exists(config)">>
                     \o (IF file.exists THEN <<"fs.readFile(config)">> ELSE <<>>)
       /\ IF ~sshConfigFileResult.success
          THEN /\ Return(Err("SSHConfigFileMalformedError",
                             <<sshConfigFileResult.error, sshConfigFileResult.reason>>))
               /\ loc' = [loc EXCEPT !.sshConfigFileResult = sshConfigFileResult]
          ELSE IF ~HostEntryFound(sshConfigFile, loc.sshHost)
          THEN /\ Return(Err("SSHConfigHostMissingError",
                             <<loc.sshHost, ForInKeys(sshConfigFile)>>))
               /\ loc' = [loc EXCEPT !.sshConfigFileResult = sshConfigFileResult]
          ELSE IF Falsy(hostConfig.IdentityFile)
          THEN /\ Return(Err("SSHPubkeyMissingError", <<"No IdentityFile entry", loc.sshHost>>))
               /\ loc' = [loc EXCEPT !.sshConfigFileResult = sshConfigFileResult]
          ELSE /\ pc' = "pubExists" /\ result' = result
               /\ loc' = [loc EXCEPT !.sshConfigFileResult = sshConfigFileResult,
                                     !.identityFilePath = IdentityFilePathOf(hostConfig)]
  /\ UNCHANGED <<cmd, writes, logged, exited>>

\* lines 142-146
checkPubkeyExists ==
  /\ cmd = "setup" /\ pc = "pubExists"
  /\ \E exists \in BOOLEAN :
       /\ fsys' = [fsys EXCEPT !.pubExists = IF exists THEN "yes" ELSE "no"]
       /\ calls' = Append(calls, "fs.exists(pub)")
       /\ IF ~exists
          THEN Return(Err("SSHPubkeyMissingError", <<"No such file exists", loc.identityFilePath>>))
          ELSE pc' = "readPub" /\ result' = result
  /\ UNCHANGED <<cmd, loc, writes, logged, exited>>

\* lines 149-154; the read is not inside any try block, and makeCommand catches nothing
readPubkey ==
  /\ cmd = "setup" /\ pc = "readPub"
  /\ \E content \in PubContents :
       /\ fsys' = [fsys EXCEPT !.pubContent = content]
       /\ calls' = Append(calls, "fs.readFile(pub)")
       /\ IF content = Throws
          THEN /\ exited' = "unhandled" /\ pc' = "rejected"
               /\ result' = result /\ loc' = loc
          ELSE IF Falsy(EmailOf(content))
          THEN /\ Return(Err("SSHPubkeyMalformedError", <<"No email found", loc.identityFilePath>>))
               /\ loc' = loc /\ exited' = exited
          ELSE /\ pc' = "probe" /\ result' = result /\ exited' = exited
               /\ loc' = [loc EXCEPT !.email = EmailOf(content)]
  /\ UNCHANGED <<cmd, writes, logged>>

\* lines 157-162
probeUsername ==
  /\ cmd = "setup" /\ pc = "probe"
  /\ \E probe \in SetupProbes :
       LET username == getUsername(probe) IN
       /\ fsys' = [fsys EXCEPT !.probe = probe]
       /\ calls' = Append(calls, "ssh -T")
       /\ logged' = logged \o getUsernameLog(probe)
       /\ loc' = [loc EXCEPT !.username = username]
       /\ IF UsernameMissing(username)
          THEN Return(Err("SSHPubkeyNotAttachedToUserError", <<"Could not determine username">>))
          ELSE pc' = "write" /\ result' = result
  /\ UNCHANGED <<cmd, writes, exited>>

\* lines 34-49 and 165-172: the next setGitValue, whose failure is caught and logged
setGitValue ==
  /\ cmd = "setup" /\ pc = "write"
  /\ LET todo == GitConfigWrites(loc.identityFilePath, loc.username, loc.email)
         w == todo[Len(writes) + 1]
     IN \E ok \in BOOLEAN :
          LET ws == Append(writes, [k |-> w.k, v |-> w.v, location |-> w.location, ok |-> ok]) IN
          /\ writes' = ws
          /\ calls' = Append(calls, "git config")
          /\ logged' = Append(logged,
                 [text |-> IF ok THEN "set" ELSE "unable to set git config key",
                  arg |-> <<w.location, w.k, w.v>>])
          /\ IF Len(ws) = Len(todo)
             THEN Return(WriteStageResult(ws))
             ELSE pc' = "write" /\ result' = result
  /\ UNCHANGED <<cmd, fsys, loc, exited>>

NextSetup ==
  \/ checkIsRepo
  \/ checkRemoteOrigin
  \/ loadSSHConfig
  \/ checkPubkeyExists
  \/ readPubkey
  \/ probeUsername
  \/ setGitValue
  \/ makeCommandExit

SpecSetup == InitSetup /\ [][NextSetup]_vars

----------------------------------------------------------------------------
(* Properties of the setup command *)

Returned == pc \in {"returned", "exited"}

Range(seq) == {seq[i] : i \in 1..Len(seq)}

IsHostBlock(line) ==
  line.type # "comment" /\ line.param = "Host" /\ line.value.isString /\ line.hasConfig

\* the aliases the document declares
DeclaredAliases(doc) == {doc[i].value.s : i \in {j \in 1..Len(doc) : IsHostBlock(doc[j])}}

PreRepo == fsys.isRepo = "yes"
PreOrigin == fsys.origin \notin {Unasked, Throws} /\ trim(fsys.origin) # <<>>
PreSSHRemote == startsWith(trim(fsys.origin), S_gitAt)
PreConfigLoads == fsys.sshAsked /\ loc.sshConfigFileResult.success
PreHostInMapping == loc.sshHost \in DeclaredAliases(fsys.sshConfig.doc)
PreIdentityFile == ~Falsy(OwnValue(loc.sshConfigFileResult.value, loc.sshHost).IdentityFile)
PrePubkeyExists == fsys.pubExists = "yes"
PreEmail == fsys.pubContent \notin {Unasked, Throws} /\ trim(fsys.pubContent) # <<>>
PreUsername == loc.username # Undefined /\ loc.username # <<>>

AllPreconditions ==
  /\ PreRepo /\ PreOrigin /\ PreSSHRemote /\ PreConfigLoads /\ PreHostInMapping
  /\ PreIdentityFile /\ PrePubkeyExists /\ PreEmail /\ PreUsername

\* C1: a git-config write is made only after every precondition check of the run
\* has passed, and a run that ends with an error (or is cut short) has written nothing.
C1_NoWriteBeforeChecks ==
  cmd = "setup" =>
    /\ (writes # <<>> => AllPreconditions)
    /\ ((Returned /\ ~result.success) => writes = <<>>)
    /\ (exited = "unhandled" => writes = <<>>)

C1_Witness == cmd = "setup" /\ pc = "write" /\ Len(writes) = 1 /\ AllPreconditions

CallOrder ==
  <<"git rev-parse", "git config --get remote.origin.url", "fs.exists(config)",
    "fs.readFile(config)", "fs.exists(pub)", "fs.readFile(pub)", "ssh -T">>

\* the collaborators a run has used by the time it stops at the check of this kind
CallsUpTo(kind) ==
  CASE kind = "NotInGitDirectoryError" -> 1
    [] kind \in {"NoRemoteOriginError", "RemoteOriginIsNotSSHError"} -> 2
    [] kind \in {"SSHConfigFileMalformedError", "SSHConfigHostMissingError"} -> 4
    [] kind = "SSHPubkeyMissingError" -> 5
    [] kind = "SSHPubkeyMalformedError" -> 6
    [] OTHER -> 7

\* the error kind of the first precondition, in the documented order, that does not hold
EarliestViolated ==
  IF ~PreRepo THEN "NotInGitDirectoryError"
  ELSE IF ~PreOrigin THEN "NoRemoteOriginError"
  ELSE IF ~PreSSHRemote THEN "RemoteOriginIsNotSSHError"
  ELSE IF ~PreConfigLoads THEN "SSHConfigFileMalformedError"
  ELSE IF ~PreHostInMapping THEN "SSHConfigHostMissingError"
  ELSE IF ~PreIdentityFile \/ ~PrePubkeyExists THEN "SSHPubkeyMissingError"
  ELSE IF ~PreEmail THEN "SSHPubkeyMalformedError"
  ELSE "SSHPubkeyNotAttachedToUserError"

\* C2: the checks run in the fixed order, the run stops at the first failing one
\* without calling a later collaborator, and the error kind returned is that of the
\* earliest violated precondition.
C2_EarliestViolatedReported ==
  (cmd = "setup" /\ Returned /\ ~result.success) =>
    /\ \A i \in 1..Len(calls) : i <= CallsUpTo(result.error)
    /\ SelectSeq(CallOrder, LAMBDA c : c \in Range(calls)) = calls
    /\ result.error = EarliestViolated

\* the six writes the claim lists, from the values the run resolved
ExpectedWrites ==
  << <<"commit.gpgsign", S_true, "global">>,
     <<"tag.gpgsign", S_true, "global">>,
     <<"gpg.format", S_ssh, "global">>,
     <<"user.signingkey",
       [i \in 1..Len(loc.identityFilePath) |->
          IF loc.identityFilePath[i] = "\\" THEN "/" ELSE loc.identityFilePath[i]],
       "local">>,
     <<"user.name", loc.username, "local">>,
     <<"user.email", loc.email, "local">> >>

FailureLogs == SelectSeq(logged, LAMBDA e : e.text = "unable to set git config key")

FailedWrites == SelectSeq(writes, LAMBDA w : ~w.ok)

\* C3: past the checks, exactly the six writes are attempted in the fixed order and
\* scope, each whether or not an earlier one failed, and every failed write is logged.
C3_SixWritesInOrder ==
  cmd = "setup" =>
    /\ Len(writes) <= 6
    /\ \A i \in 1..Len(writes) :
         <<writes[i].k, writes[i].v, writes[i].location>> = ExpectedWrites[i]
    /\ loc.identityFilePath # Undefined =>
         loc.identityFilePath =
           expandTilde(OwnValue(loc.sshConfigFileResult.value, loc.sshHost).IdentityFile)
             \o S_dotPub
    /\ (pc = "write" => Len(writes) < 6)
    /\ ((Returned /\ result.success) => Len(writes) = 6)
    /\ Len(FailureLogs) = Len(FailedWrites)
    /\ \A i \in 1..Len(FailedWrites) :
         FailureLogs[i].arg =
           <<FailedWrites[i].location, FailedWrites[i].k, FailedWrites[i].v>>

C3_Witness ==
  /\ cmd = "setup" /\ Returned /\ Len(writes) = 6
  /\ ~writes[1].ok /\ ~writes[4].ok /\ writes[6].ok
  /\ "\\" \in Range(loc.identityFilePath)

\* C4: the Result of gitSetup is Ok exactly when the run reached the write stage,
\* whatever the outcomes of the six writes; a run stopped at a check returns an Err.
C4_OkIffWriteStage ==
  (cmd = "setup" /\ Returned) =>
    /\ result.success <=> writes # <<>>
    /\ result.success <=> AllPreconditions
    /\ ~result.success => result.error # "<pending>"

C4_Witness ==
  /\ cmd = "setup" /\ Returned /\ result.success
  /\ \A i \in 1..6 : ~writes[i].ok

\* C5: a run never ends in an unhandled exception: whatever a collaborator does,
\* a Result reaches makeCommand, which logs a failure and exits.
C5_NoUnhandledException ==
  /\ exited # "unhandled"
  /\ (pc = "exited" /\ ~result.success) => logged[Len(logged)].text = "error"

\* C6: a missing configuration file ends the setup run with the missing-file error
\* kind, which differs from the kind reported for a file that cannot be parsed.
C6_MissingFileKind ==
  (cmd = "setup" /\ Returned /\ fsys.sshAsked /\ ~fsys.sshConfig.exists) =>
    result.error = "SSHConfigFileMissingError"

----------------------------------------------------------------------------
(* Properties of getSSHConfig and of the hosts command *)

\* the hosts command has run getSSHConfig on a readable document
Parsed == cmd = "hosts" /\ pc # "start" /\ fsys.sshConfig.exists /\ fsys.sshConfig.readable

TheDoc == fsys.sshConfig.doc

TheResult == loc.sshConfigFileResult

BlocksOf(doc, a) == {i \in 1..Len(doc) : IsHostBlock(doc[i]) /\ doc[i].value.s = a}

DuplicatedAliases(doc) == {a \in DeclaredAliases(doc) : Cardinality(BlocksOf(doc, a)) >= 2}

\* the position of the second Host block of a duplicated alias
SecondBlock(doc, a) ==
  CHOOSE j \in BlocksOf(doc, a) : Cardinality({i \in BlocksOf(doc, a) : i < j}) = 1

ParamsOf(config) == {config[i].param : i \in {j \in 1..Len(config) : config[j].type # "comment"}}

\* the block's entries all have string values and name HostName and User
WellFormedBlock(config) ==
  /\ \A i \in 1..Len(config) : config[i].type # "comment" => config[i].value.isString
  /\ {"HostName", "User"} \subseteq ParamsOf(config)

\* a top-level line the reader accepts where it stands: a comment, or a well-formed
\* Host block whose alias no earlier block declares and Object.prototype does not hold
AcceptedLine(doc, k) ==
  \/ doc[k].type = "comment"
  \/ /\ IsHostBlock(doc[k])
     /\ WellFormedBlock(doc[k].config)
     /\ doc[k].value.s \notin ObjectPrototypeKeys
     /\ \A i \in 1..(k - 1) : ~(IsHostBlock(doc[i]) /\ doc[i].value.s = doc[k].value.s)

\* C7 as stated: a document that declares an alias twice always fails with the
\* DuplicateHost error naming that alias, wherever the blocks stand and whatever
\* else the document holds.
C7_AlwaysDuplicateHost ==
  Parsed =>
    \A a \in DuplicatedAliases(TheDoc) :
      /\ ~TheResult.success
      /\ TheResult.error = "DupublicatHostError"
      /\ TheResult.reason = <<"duplicate Hosts named", a>>

\* C7 amended: a document that declares an alias twice never parses; the error is
\* DuplicateHost naming that alias whenever every top-level line before the alias's
\* second block is accepted.
C7_DuplicateHostWhenFirstError ==
  Parsed =>
    \A a \in DuplicatedAliases(TheDoc) :
      /\ ~TheResult.success
      /\ (\A k \in 1..(SecondBlock(TheDoc, a) - 1) : AcceptedLine(TheDoc, k)) =>
           /\ TheResult.error = "DupublicatHostError"
           /\ TheResult.reason = <<"duplicate Hosts named", a>>

C7_Witness ==
  /\ Parsed /\ Len(TheDoc) = 3
  /\ BlocksOf(TheDoc, <<"w">>) = {1, 3}
  /\ IsHostBlock(TheDoc[2]) /\ AcceptedLine(TheDoc, 2)
  /\ TheDoc[1].config # TheDoc[3].config
  /\ TheResult.error = "DupublicatHostError"

\* the value a block declares for a key it names once
DeclaredValue(config, key) ==
  IF key \in ParamsOf(config)
  THEN config[CHOOSE i \in 1..Len(config) :
                config[i].type # "comment" /\ config[i].param = key].value.s
  ELSE Undefined

NamedOnce(config, key) ==
  Cardinality({i \in 1..Len(config) : config[i].type # "comment" /\ config[i].param = key}) <= 1

\* comments and Host blocks only, distinct aliases, each block with a hostname and a user
WellFormedDoc(doc) ==
  /\ \A k \in 1..Len(doc) :
       \/ doc[k].type = "comment"
       \/ /\ IsHostBlock(doc[k])
          /\ WellFormedBlock(doc[k].config)
          /\ \A key \in {"HostName", "User", "IdentityFile"} : NamedOnce(doc[k].config, key)
  /\ DuplicatedAliases(doc) = {}

\* C8: a well-formed document with distinct aliases parses to a mapping whose keys
\* are the declared aliases and whose HostName, User and IdentityFile are the
\* declared values.
C8_LosslessParse ==
  (Parsed /\ WellFormedDoc(TheDoc)) =>
    /\ TheResult.success
    /\ Range(OwnKeys(TheResult.value)) = DeclaredAliases(TheDoc)
    /\ \A k \in 1..Len(TheDoc) :
         IsHostBlock(TheDoc[k]) =>
           LET entry == OwnValue(TheResult.value, TheDoc[k].value.s) IN
             /\ entry.HostName = DeclaredValue(TheDoc[k].config, "HostName")
             /\ entry.User = DeclaredValue(TheDoc[k].config, "User")
             /\ entry.IdentityFile = DeclaredValue(TheDoc[k].config, "IdentityFile")

\* the aliases the hosts command printed, in the order printed
Listed ==
  LET lines == SelectSeq(logged, LAMBDA e : e.text = " - ")
  IN [i \in 1..Len(lines) |-> lines[i].arg]

\* the aliases whose block declares HostName github.com, in the order of their blocks
GithubInDeclaredOrder(doc) ==
  LET blocks == SelectSeq(doc, LAMBDA l :
                  IsHostBlock(l) /\ OwnValue(TheResult.value, l.value.s).HostName = S_github)
  IN [i \in 1..Len(blocks) |-> blocks[i].value.s]

PositionOf(doc, a) == CHOOSE i \in 1..Len(doc) : IsHostBlock(doc[i]) /\ doc[i].value.s = a

----------------------------------------------------------------------------
(* Properties of getUsername *)

ProbeText == trim(fsys.probe)

\* name is what stands between the greeting prefix and the first "!" of text
IsGreetedName(text, name) ==
  /\ Len(text) >= Len(S_Hi) + Len(name)
  /\ SubSeq(text, 1, Len(S_Hi)) = S_Hi
  /\ SubSeq(text, Len(S_Hi) + 1, Len(S_Hi) + Len(name)) = name
  /\ "!" \notin Range(name)
  /\ (Len(text) > Len(S_Hi) + Len(name) => text[Len(S_Hi) + Len(name) + 1] = "!")

\* C10: getUsername never raises; a text beginning with the resolution-failure
\* marker gives no username, a text beginning with "Hi " gives what stands between
\* that prefix and the first "!", any other text and a throwing probe give none.
C10_GreetingClassified ==
  (cmd = "probe" /\ pc = "probeDone") =>
    /\ exited = "running"
    /\ fsys.probe = Throws => loc.username = Undefined
    /\ fsys.probe # Throws =>
         /\ startsWith(ProbeText, S_CouldNotResolve) => loc.username = Undefined
         /\ startsWith(ProbeText, S_Hi) => IsGreetedName(ProbeText, loc.username)
         /\ (~startsWith(ProbeText, S_CouldNotResolve) /\ ~startsWith(ProbeText, S_Hi)) =>
              loc.username = Undefined
    /\ loc.username # Undefined => (fsys.probe # Throws /\ startsWith(ProbeText, S_Hi))

C10_Witness ==
  /\ cmd = "probe" /\ pc = "probeDone"
  /\ fsys.probe = S_greeting
  /\ loc.username = <<"b","o","b">>

====
